---- MODULE Spec2Model ----
(***************************************************************************)
(* envconfig: populate the attributes of a configuration object from the   *)
(* process environment (src/envconfig/lib.py).                             *)
(*                                                                         *)
(* Python strings are modelled as sequences of one-character strings, so   *)
(* that str.upper, str.lower, concatenation and startswith are computed    *)
(* character by character.  Python values are records [t, v] carrying the  *)
(* runtime type name t and the payload v.                                  *)
(***************************************************************************)
EXTENDS Integers, Sequences, FiniteSets, TLC

(***************************************************************************)
(* Bounds of the model.                                                    *)
(***************************************************************************)
\* Largest number of variables set in the initial environment.
MaxEnvVars == 2

(***************************************************************************)
(* Characters and the string methods the library calls.                    *)
(***************************************************************************)
LowerCase == <<"a","b","c","d","e","f","g","h","i","j","k","l","m",
               "n","o","p","q","r","s","t","u","v","w","x","y","z">>

UpperCase == <<"A","B","C","D","E","F","G","H","I","J","K","L","M",
               "N","O","P","Q","R","S","T","U","V","W","X","Y","Z">>

Digits == <<"0","1","2","3","4","5","6","7","8","9">>

IndexIn(seq, c) == CHOOSE i \in 1..Len(seq) : seq[i] = c

Occurs(seq, c) == \E i \in 1..Len(seq) : seq[i] = c

\* str.upper(): lower-case letters are mapped, everything else is kept.
upper(s) ==
    [i \in 1..Len(s) |->
        IF Occurs(LowerCase, s[i]) THEN UpperCase[IndexIn(LowerCase, s[i])] ELSE s[i]]

\* str.lower(): upper-case letters are mapped, everything else is kept.
lower(s) ==
    [i \in 1..Len(s) |->
        IF Occurs(UpperCase, s[i]) THEN LowerCase[IndexIn(UpperCase, s[i])] ELSE s[i]]

\* key.startswith('_')
startswith_underscore(key) == Len(key) > 0 /\ key[1] = "_"

(***************************************************************************)
(* Python values.                                                          *)
(***************************************************************************)
None == [t |-> "NoneType", v |-> 0]

PyInt(n) == [t |-> "int", v |-> n]

PyBool(b) == [t |-> "bool", v |-> b]

PyStr(s) == [t |-> "str", v |-> s]

\* Python truth value of x, as tested by `if env_var:` and `if not default_val:`.
Truthy(x) ==
    CASE x.t = "NoneType" -> FALSE
      [] x.t = "bool"     -> x.v
      [] x.t = "int"      -> x.v # 0
      [] x.t = "str"      -> Len(x.v) > 0

\* str(x) as interpolated into an f-string.
Format(x) ==
    CASE x.t = "NoneType" -> <<"N","o","n","e">>
      [] x.t = "str"      -> x.v
      [] OTHER            -> <<"?">>

\* A dictionary lookup d.get(key): the value, or None when the key is absent.
DictGet(d, key) == IF key \in DOMAIN d THEN d[key] ELSE None

(***************************************************************************)
(* Exceptions.  `at` is the attribute whose processing raised, `text` the  *)
(* values interpolated into the message.                                   *)
(***************************************************************************)
NoExc == [type |-> "none", at |-> <<>>, text |-> <<>>]

Exc(type, attribute, text) == [type |-> type, at |-> attribute, text |-> text]

\* Result of a conversion: a value, or the name of the exception it raises.
Value(v) == [ok |-> TRUE, val |-> v, exc |-> "none"]

Raises(e) == [ok |-> FALSE, val |-> None, exc |-> e]

(***************************************************************************)
(* The conversions type_(env_var) of the types the model carries.          *)
(***************************************************************************)
IsDigits(s) == Len(s) > 0 /\ \A i \in 1..Len(s) : Occurs(Digits, s[i])

RECURSIVE DigitsValue(_)
DigitsValue(s) ==
    IF Len(s) = 0 THEN 0
    ELSE 10 * DigitsValue(SubSeq(s, 1, Len(s) - 1)) + (IndexIn(Digits, s[Len(s)]) - 1)

\* int(s): an optional sign followed by decimal digits, ValueError otherwise.
ParseInt(s) ==
    IF Len(s) > 1 /\ s[1] \in {"+", "-"} /\ IsDigits(Tail(s))
    THEN Value(PyInt(IF s[1] = "-" THEN 0 - DigitsValue(Tail(s)) ELSE DigitsValue(Tail(s))))
    ELSE IF IsDigits(s) THEN Value(PyInt(DigitsValue(s)))
    ELSE Raises("ValueError")

TrueTokens == { <<"y">>, <<"y","e","s">>, <<"t">>, <<"t","r","u","e">>,
                <<"o","n">>, <<"1">> }

FalseTokens == { <<"n">>, <<"n","o">>, <<"f">>, <<"f","a","l","s","e">>,
                 <<"o","f","f">>, <<"0">> }

\* distutils.util.strtobool(val): 1, 0 or ValueError, on the lower-cased value.
strtobool(val) ==
    IF lower(val) \in TrueTokens THEN Value(PyInt(1))
    ELSE IF lower(val) \in FalseTokens THEN Value(PyInt(0))
    ELSE Raises("ValueError")

\* type_(env_var) for a type other than the hinted bool.
Construct(type_, s) ==
    CASE type_ = "str"  -> Value(PyStr(s))
      [] type_ = "int"  -> ParseInt(s)
      [] type_ = "bool" -> Value(PyBool(Len(s) > 0))
      [] OTHER          -> Raises("TypeError")

\* type_(strtobool(env_var)) with type_ being bool.
ConstructBool(s) ==
    IF strtobool(s).ok THEN Value(PyBool(strtobool(s).val.v # 0)) ELSE strtobool(s)

(***************************************************************************)
(* _get_env_var_name and _process_env_var.                                 *)
(***************************************************************************)
\* Variant of get_env_var_name that falls back on the bare variable.
get_env_var_name_bare(p, attribute) == upper(attribute)

get_env_var_name(prefix, attribute) ==
    IF prefix # <<>> THEN upper(prefix) \o <<"_">> \o upper(attribute)
    ELSE upper(attribute)

\* os.getenv(key): the string bound to key, or None.
getenv(envmap, key) == IF key \in DOMAIN envmap THEN PyStr(envmap[key]) ELSE None

\* What _process_env_var does to the attribute: "set" it to val, "keep" it,
\* or "raise" exc.
Set(v) == [kind |-> "set", val |-> v, exc |-> NoExc]

Keep == [kind |-> "keep", val |-> None, exc |-> NoExc]

Raise(e) == [kind |-> "raise", val |-> None, exc |-> e]

SetOrRaise(attribute, r) ==
    IF r.ok THEN Set(r.val) ELSE Raise(Exc(r.exc, attribute, <<>>))

\* The branch taken when the environment variable is present and non-empty.
process_present(attribute, env_var, hintmap, membermap) ==
    IF attribute \in DOMAIN hintmap
    THEN IF hintmap[attribute] = "bool"
         THEN SetOrRaise(attribute, ConstructBool(env_var.v))
         ELSE SetOrRaise(attribute, Construct(hintmap[attribute], env_var.v))
    ELSE SetOrRaise(attribute, Construct(membermap[attribute].t, env_var.v))

\* Variant of process_absent that logs the warning but never assigns None.
process_absent_no_assign(attribute, env_var, membermap, r) ==
    IF ~Truthy(DictGet(membermap, attribute)) /\ r
    THEN Raise(Exc("EnvconfigException", attribute, <<attribute, Format(env_var)>>))
    ELSE Keep

\* Variant of process_absent that asks whether a default exists, not whether
\* it is truthy.
process_absent_presence(attribute, env_var, membermap, r) ==
    IF attribute \notin DOMAIN membermap
    THEN IF r
         THEN Raise(Exc("EnvconfigException", attribute, <<attribute, Format(env_var)>>))
         ELSE Set(None)
    ELSE Keep

\* Variant of process_absent whose else branch hangs off the wrong `if`:
\* whenever it does not raise, it assigns None.
process_absent_clobber(attribute, env_var, membermap, r) ==
    IF ~Truthy(DictGet(membermap, attribute)) /\ r
    THEN Raise(Exc("EnvconfigException", attribute, <<attribute, Format(env_var)>>))
    ELSE Set(None)

\* The branch taken when the environment variable is absent or empty.
process_absent(attribute, env_var, membermap, raise_on_absence) ==
    IF ~Truthy(DictGet(membermap, attribute))
    THEN IF raise_on_absence
         THEN Raise(Exc("EnvconfigException", attribute, <<attribute, Format(env_var)>>))
         ELSE Set(None)
    ELSE Keep

\* Variant of process_env_var that tests `env_var is not None`.
process_env_var_not_none(attribute, env_var, hintmap, membermap, r) ==
    IF env_var # None
    THEN process_present(attribute, env_var, hintmap, membermap)
    ELSE process_absent(attribute, env_var, membermap, r)

process_env_var(attribute, env_var, hintmap, membermap, raise_on_absence) ==
    IF Truthy(env_var)
    THEN process_present(attribute, env_var, hintmap, membermap)
    ELSE process_absent(attribute, env_var, membermap, raise_on_absence)

\* _get_attributes: members keeps the attributes not starting with an
\* underscore; attributes is the union of the member and the hint names.
get_members(attrmap) ==
    [key \in {k \in DOMAIN attrmap : ~startswith_underscore(k)} |-> attrmap[key]]

get_attributes(hintmap, attrmap) == DOMAIN get_members(attrmap) \cup DOMAIN hintmap

(***************************************************************************)
(* The configuration classes, prefixes and environments explored.          *)
(***************************************************************************)
F_name == <<"n","a","m","e">>

F_age == <<"a","g","e">>

F_is_married == <<"i","s","_","m","a","r","r","i","e","d">>

F_private == <<"_","n","a","m","e">>

P_none == <<>>

P_person == <<"p","e","r","s","o","n">>

Prefixes == {P_none, P_person}

K_NAME == <<"N","A","M","E">>

K_AGE == <<"A","G","E">>

K_IS_MARRIED == <<"I","S","_","M","A","R","R","I","E","D">>

K_PRIVATE == <<"_","N","A","M","E">>

K_PERSON_NAME == <<"P","E","R","S","O","N","_","N","A","M","E">>

K_PERSON_AGE == <<"P","E","R","S","O","N","_","A","G","E">>

K_PERSON_IS_MARRIED ==
    <<"P","E","R","S","O","N","_","I","S","_","M","A","R","R","I","E","D">>

K_PERSON_PRIVATE == <<"P","E","R","S","O","N","_","_","N","A","M","E">>

S_empty == <<>>

S_28 == <<"2","8">>

S_false == <<"f","a","l","s","e">>

S_Yes == <<"Y","e","s">>

S_Makram == <<"M","a","k","r","a","m">>

\* Values an environment variable may be bound to.
EnvVals == {S_empty, S_28, S_false, S_Yes, S_Makram}

\* The variables the enumerated environments bind for a field: its bare
\* variable and, for age and _name, the one under the prefix 'person'.
KeysOf(f) ==
    CASE f = F_name       -> {K_NAME}
      [] f = F_age        -> {K_AGE, K_PERSON_AGE}
      [] f = F_is_married -> {K_IS_MARRIED}
      [] f = F_private    -> {K_PRIVATE, K_PERSON_PRIVATE}

Types == {"str", "int", "bool"}

\* Values a class body assigns to an attribute.
Defaults == {PyInt(0), PyInt(25), PyBool(FALSE), PyBool(TRUE), PyStr(S_empty),
             PyStr(S_Makram), None}

\* A class is its annotations (hint) and its assigned class attributes (attr).
Class(h, a) == [hint |-> h, attr |-> a]

Empty == [k \in {} |-> None]

\* Classes declaring one field, in every combination of hint and value.
OneFieldClasses ==
    UNION { { Class(h, a) : h \in [{f} -> Types] \cup {Empty},
                            a \in [{f} -> Defaults] \cup {Empty} }
            \ {Class(Empty, Empty)} : f \in {F_age, F_private} }

\* The Environment classes of the test suite.
TestNoOverrides ==
    Class((F_name :> "str") @@ (F_age :> "int") @@ (F_is_married :> "bool"), Empty)

TestSomeOverrides ==
    Class((F_name :> "str") @@ (F_age :> "int") @@ (F_is_married :> "bool"),
          (F_age :> PyInt(25)) @@ (F_is_married :> PyBool(TRUE)))

TestNotSet ==
    Class((F_name :> "str") @@ (F_age :> "int") @@ (F_is_married :> "bool"),
          (F_age :> PyInt(25)))

TestNoTypeHint ==
    Class((F_name :> "str") @@ (F_is_married :> "bool"),
          (F_age :> PyInt(25)) @@ (F_is_married :> PyBool(TRUE)))

TestClasses == {TestNoOverrides, TestSomeOverrides, TestNotSet, TestNoTypeHint}

Classes == OneFieldClasses \cup TestClasses

\* The environments the tests of the suite set up.
TestEnvironments ==
    { (K_NAME :> S_Makram) @@ (K_AGE :> S_28) @@ (K_IS_MARRIED :> S_false),
      (K_NAME :> S_Makram) @@ (K_AGE :> S_28),
      (K_PERSON_NAME :> S_Makram) @@ (K_PERSON_AGE :> S_28)
          @@ (K_PERSON_IS_MARRIED :> S_false) }

\* Environments binding at most MaxEnvVars of the variables of the class,
\* and the environments of the test suite.
Environments(c) ==
    UNION { [D -> EnvVals] :
              D \in { X \in SUBSET (UNION { KeysOf(f) : f \in DOMAIN c.hint \cup DOMAIN c.attr }) :
                        Cardinality(X) <= MaxEnvVars } }
    \cup TestEnvironments

(***************************************************************************)
(* State.                                                                  *)
(***************************************************************************)
VARIABLES
    hints,             \* get_type_hints(env): annotated name -> type
    attrs,             \* the object's data attributes: name -> value
    environ,           \* os.environ
    pc,                \* "init" before any call, "running" inside process,
                       \* "done" once a call has returned or raised
    prefix,            \* argument of the current (or last) call
    raise_on_absence,  \* argument of the current (or last) call
    members,           \* members as computed at the start of the call
    todo,              \* attributes the loop has not visited yet
    raised,            \* exception the last call propagated, or NoExc
    looked,            \* <<attribute, variable>> pairs passed to os.getenv
    before,            \* attrs at the start of the call
    snapshot,          \* environ at the start of the call
    repeat             \* the call repeats, with the same arguments and environment,
                       \* the call before it, which returned without raising

vars == <<hints, attrs, environ, pc, prefix, raise_on_absence, members, todo,
          raised, looked, before, snapshot, repeat>>

Init ==
    \E c \in Classes :
        /\ hints = c.hint
        /\ attrs = c.attr
        /\ environ \in Environments(c)
        /\ pc = "init"
        /\ prefix = P_none
        /\ raise_on_absence = TRUE
        /\ members = Empty
        /\ todo = {}
        /\ raised = NoExc
        /\ looked = {}
        /\ before = c.attr
        /\ snapshot = environ
        /\ repeat = FALSE

(***************************************************************************)
(* process(env, raise_on_absence, prefix).                                 *)
(***************************************************************************)
\* Entry: _get_attributes(env), then the loop starts.
Call(r, p) ==
    /\ pc # "running"
    /\ pc' = "running"
    /\ prefix' = p
    /\ raise_on_absence' = r
    /\ members' = get_members(attrs)
    /\ todo' = get_attributes(hints, attrs)
    /\ raised' = NoExc
    /\ looked' = {}
    /\ before' = attrs
    /\ snapshot' = environ
    /\ repeat' = (/\ pc = "done"
                   /\ raised = NoExc
                   /\ prefix = p
                   /\ raise_on_absence = r
                   /\ snapshot = environ)
    /\ UNCHANGED <<hints, attrs, environ>>

\* setattr(env, attribute, value)
setattr(attrmap, attribute, value) ==
    [k \in DOMAIN attrmap \cup {attribute} |->
        IF k = attribute THEN value ELSE attrmap[k]]

\* Variant of assign that resets the attribute to None before raising.
assign_before_raise(attrmap, attribute, out) ==
    IF out.kind = "set" THEN setattr(attrmap, attribute, out.val)
    ELSE IF out.kind = "raise" THEN setattr(attrmap, attribute, None)
    ELSE attrmap

\* The effect of _process_env_var on the object: only a "set" outcome assigns.
assign(attrmap, attribute, out) ==
    IF out.kind = "set" THEN setattr(attrmap, attribute, out.val) ELSE attrmap

\* One iteration of the loop, on any attribute of the set not yet visited.
Step(attribute) ==
    /\ pc = "running"
    /\ attribute \in todo
    /\ LET name == get_env_var_name(prefix, attribute)
           env_var == getenv(environ, name)
           out == process_env_var(attribute, env_var, hints, members, raise_on_absence)
       IN  /\ looked' = looked \cup {<<attribute, name>>}
           /\ attrs' = assign(attrs, attribute, out)
           /\ raised' = out.exc
           /\ pc' = IF out.kind = "raise" THEN "done" ELSE "running"
           /\ todo' = IF out.kind = "raise" THEN todo ELSE todo \ {attribute}
    /\ UNCHANGED <<hints, environ, prefix, raise_on_absence, members, before,
                   snapshot, repeat>>

\* The loop is exhausted: process returns.
Return ==
    /\ pc = "running"
    /\ todo = {}
    /\ pc' = "done"
    /\ UNCHANGED <<hints, attrs, environ, prefix, raise_on_absence, members, todo,
                   raised, looked, before, snapshot, repeat>>

\* TestEnvconfig.tearDown: NAME, AGE and IS_MARRIED are deleted from os.environ.
tearDown ==
    /\ pc # "running"
    /\ DOMAIN environ \cap {K_NAME, K_AGE, K_IS_MARRIED} # {}
    /\ environ' = [k \in DOMAIN environ \ {K_NAME, K_AGE, K_IS_MARRIED} |-> environ[k]]
    /\ UNCHANGED <<hints, attrs, pc, prefix, raise_on_absence, members, todo,
                   raised, looked, before, snapshot, repeat>>

Next ==
    \/ \E r \in BOOLEAN, p \in Prefixes : Call(r, p)
    \/ \E attribute \in todo : Step(attribute)
    \/ Return
    \/ tearDown

Spec == Init /\ [][Next]_vars

(***************************************************************************)
(* Vocabulary of the properties.                                           *)
(***************************************************************************)
\* The variable the specification names for field f under prefix p.
SpecVar(p, f) ==
    CASE p = P_none   /\ f = F_name       -> K_NAME
      [] p = P_none   /\ f = F_age        -> K_AGE
      [] p = P_none   /\ f = F_is_married -> K_IS_MARRIED
      [] p = P_none   /\ f = F_private    -> K_PRIVATE
      [] p = P_person /\ f = F_name       -> K_PERSON_NAME
      [] p = P_person /\ f = F_age        -> K_PERSON_AGE
      [] p = P_person /\ f = F_is_married -> K_PERSON_IS_MARRIED
      [] p = P_person /\ f = F_private    -> K_PERSON_PRIVATE

Fields == {F_name, F_age, F_is_married, F_private}

\* The loop of the current (or last) call has visited f.
Visited(f) == \E x \in looked : x[1] = f

\* f is a field of the object in the sense of the eligibility rule.
Eligible(f) == f[1] # "_" /\ (f \in DOMAIN hints \/ f \in DOMAIN before)

\* The variable of f was set, to a non-empty string, when the call started.
Present(f) ==
    /\ SpecVar(prefix, f) \in DOMAIN snapshot
    /\ snapshot[SpecVar(prefix, f)] # S_empty

EnvValue(f) == snapshot[SpecVar(prefix, f)]

\* f had a default the binder can use: a value that is not falsy.
UsableDefault(f) == f \in DOMAIN before /\ before[f] \notin
    {None, PyInt(0), PyBool(FALSE), PyStr(S_empty)}

\* f has the value it had when the call started (or is still unset).
Untouched(f) ==
    /\ f \in DOMAIN attrs <=> f \in DOMAIN before
    /\ f \in DOMAIN attrs => attrs[f] = before[f]

IsNull(f) == f \in DOMAIN attrs /\ attrs[f] = None

\* What the absent-variable branch may leave behind for f.
AbsentPath(f) ==
    IF raised.at = f THEN raised.type = "EnvconfigException"
    ELSE Untouched(f) \/ IsNull(f)

(***************************************************************************)
(* C1: every field the call visits is looked up under exactly one variable,*)
(* upper(f) without a prefix and upper(p) + "_" + upper(f) with prefix p;  *)
(* when that variable is not set the field takes the absent-variable path  *)
(* (it is left alone, set to None, or the call raises the missing-         *)
(* configuration error), whatever the bare variable upper(f) holds.        *)
(***************************************************************************)
C1_OneVariablePerField ==
    \A f \in Fields :
        Visited(f) =>
            /\ {x \in looked : x[1] = f} = {<<f, SpecVar(prefix, f)>>}
            /\ SpecVar(prefix, f) \notin DOMAIN snapshot => AbsentPath(f)

\* NAME is set, PERSON_NAME is not, and `name` was processed under prefix
\* 'person': it ended up None.
C1_Witness ==
    /\ pc = "done"
    /\ raised = NoExc
    /\ prefix = P_person
    /\ K_NAME \in DOMAIN snapshot /\ snapshot[K_NAME] = S_Makram
    /\ K_PERSON_NAME \notin DOMAIN snapshot
    /\ <<F_name, K_PERSON_NAME>> \in looked
    /\ IsNull(F_name)

\* Marks a string the specification's conversion rejects.
CoercionError == [t |-> "CoercionError", v |-> 0]

\* The conversion the specification prescribes, on the values of EnvVals.
SpecCoerce(type_, str) ==
    CASE type_ = "str" -> PyStr(str)
      [] type_ = "int" -> IF str = S_28 THEN PyInt(28) ELSE CoercionError
      [] type_ = "bool" ->
            IF str = S_Yes THEN PyBool(TRUE)
            ELSE IF str = S_false THEN PyBool(FALSE)
            ELSE CoercionError
      [] OTHER -> CoercionError

\* The type the specification converts the variable of f to.
CoercionType(f) == IF f \in DOMAIN hints THEN hints[f] ELSE before[f].t

(***************************************************************************)
(* C2: once process has returned, a field whose variable was set to a      *)
(* non-empty string s holds the conversion of s under the declared type,   *)
(* or, for an undeclared field, under the type of its default.             *)
(***************************************************************************)
C2_Claim ==
    (pc = "done" /\ raised = NoExc) =>
        \A f \in Fields :
            (Eligible(f) /\ Present(f)) =>
                /\ f \in DOMAIN attrs
                /\ attrs[f] = SpecCoerce(CoercionType(f), EnvValue(f))

(***************************************************************************)
(* C3: a field whose coercion type is bool (declared bool, or undeclared   *)
(* with a bool default) and whose variable is set becomes true on a truthy *)
(* token, false on a falsy token, and on any other non-empty string the    *)
(* call fails with a coercion error and leaves the field alone.            *)
(***************************************************************************)
C3_Claim ==
    \A f \in Fields :
        (Eligible(f) /\ Visited(f) /\ Present(f) /\ CoercionType(f) = "bool") =>
            IF EnvValue(f) = S_Yes THEN f \in DOMAIN attrs /\ attrs[f] = PyBool(TRUE)
            ELSE IF EnvValue(f) = S_false
                 THEN f \in DOMAIN attrs /\ attrs[f] = PyBool(FALSE)
            ELSE /\ raised.at = f
                 /\ raised.type = "ValueError"
                 /\ Untouched(f)

(***************************************************************************)
(* C4: a field whose variable is absent or empty and whose default is not  *)
(* falsy keeps exactly that default, with raise_on_absence true or false,  *)
(* and the call does not fail at that field.                               *)
(***************************************************************************)
C4_DefaultKept ==
    \A f \in Fields :
        (Eligible(f) /\ Visited(f) /\ ~Present(f) /\ UsableDefault(f)) =>
            /\ Untouched(f)
            /\ raised.at # f

\* `age = 25` with AGE set to the empty string, processed with
\* raise_on_absence=True: the call returned and age is still 25.
C4_Witness ==
    /\ pc = "done"
    /\ raised = NoExc
    /\ raise_on_absence
    /\ prefix = P_none
    /\ Visited(F_age)
    /\ K_AGE \in DOMAIN snapshot /\ snapshot[K_AGE] = S_empty
    /\ before = (F_age :> PyInt(25))
    /\ attrs = (F_age :> PyInt(25))

\* The message interpolates str.
Mentions(text, str) == \E i \in 1..Len(text) : text[i] = str

(***************************************************************************)
(* C5: with raise_on_absence true, a field whose variable is absent or     *)
(* empty and which has no usable default makes the call fail with the      *)
(* missing-configuration error, and the error carries both the field name  *)
(* and the name of the variable that was looked up.                        *)
(***************************************************************************)
C5_Claim ==
    \A f \in Fields :
        (Eligible(f) /\ Visited(f) /\ ~Present(f) /\ ~UsableDefault(f)
            /\ raise_on_absence) =>
            /\ raised.type = "EnvconfigException"
            /\ raised.at = f
            /\ Mentions(raised.text, f)
            /\ Mentions(raised.text, SpecVar(prefix, f))

\* The scenario of the test suite with NAME removed.
ScenarioEnv == (K_AGE :> S_28) @@ (K_IS_MARRIED :> S_false)

InScenario ==
    /\ hints = TestSomeOverrides.hint
    /\ before = TestSomeOverrides.attr
    /\ snapshot = ScenarioEnv
    /\ prefix = P_none
    /\ ~raise_on_absence
    /\ pc = "done"

ScenarioResult ==
    (F_name :> None) @@ (F_age :> PyInt(28)) @@ (F_is_married :> PyBool(FALSE))

(***************************************************************************)
(* C6: with raise_on_absence false, a field whose variable is absent or    *)
(* empty and which has no usable default is set to None and the call does  *)
(* not fail at it; with name: str, age: int = 25, is_married: bool = True, *)
(* AGE=28, IS_MARRIED=false and no NAME the call returns with name None,   *)
(* age 28 and is_married False.                                            *)
(***************************************************************************)
C6_NullWhenAbsent ==
    /\ \A f \in Fields :
          (Eligible(f) /\ Visited(f) /\ ~Present(f) /\ ~UsableDefault(f)
              /\ ~raise_on_absence) =>
              /\ IsNull(f)
              /\ raised.at # f
    /\ InScenario => (raised = NoExc /\ attrs = ScenarioResult)

\* The scenario has run to its end.
C6_Witness == InScenario /\ attrs = ScenarioResult

(***************************************************************************)
(* C7: a field is processed if and only if its name does not begin with an *)
(* underscore and it has a type declaration or an assigned value; a field  *)
(* whose name begins with an underscore is never looked up, never assigned *)
(* and never makes the call fail.                                          *)
(***************************************************************************)
C7_Claim ==
    /\ \A f \in Fields : Visited(f) => Eligible(f)
    /\ (pc = "done" /\ raised = NoExc) => \A f \in Fields : Eligible(f) => Visited(f)
    /\ \A f \in Fields :
          f[1] = "_" => (~Visited(f) /\ Untouched(f) /\ raised.at # f)

\* After a failed call: the state of the fields the loop did not complete.
C8_Failed ==
    (pc = "done" /\ raised # NoExc) =>
        /\ raised.at \in todo
        /\ \A f \in todo : Untouched(f)
        /\ \A f \in todo \ {raised.at} : ~Visited(f)

\* The step that raises ends the call and assigns nothing.
C8_RaisingStep ==
    (pc = "running" /\ raised' # NoExc) =>
        (pc' = "done" /\ attrs' = attrs /\ todo' = todo)

(***************************************************************************)
(* C8: process is fail-fast.  The step that raises ends the call and       *)
(* changes no attribute, so the fields bound before it keep their new      *)
(* values; once the call has failed, the failing field and every field the *)
(* loop had not reached hold the values they had before the call, and no   *)
(* field but the failing one was looked up among them.                     *)
(***************************************************************************)
C8_FailFast == []C8_Failed /\ [][C8_RaisingStep]_vars

\* A call has failed after binding one field and before reaching another.
C8_Witness ==
    /\ pc = "done"
    /\ raised # NoExc
    /\ \E f \in Fields : Visited(f) /\ f \notin todo /\ ~Untouched(f)
    /\ \E g \in todo : g # raised.at

\* f has a default that Python treats as false.
FalsyDefault(f) ==
    f \in DOMAIN before /\ before[f] \in {PyInt(0), PyBool(FALSE), PyStr(S_empty)}

C10_Idempotent == repeat => (raised = NoExc /\ attrs = before)

\* The second of two identical calls has returned; the first had set
\* is_married to None and age to 28.
C10_Witness ==
    /\ pc = "done"
    /\ repeat
    /\ hints = TestNotSet.hint
    /\ IsNull(F_is_married)
    /\ attrs[F_age] = PyInt(28)

====
